---- MODULE Spec2Model ----
(***************************************************************************)
(* Model of the LighthouseJob reconciler of lighthouse-jx-controller       *)
(* (pkg/engines/jx/controller.go).  The job resources, the pipeline        *)
(* activities of their namespace, the pipeline engine (create / apply),    *)
(* the reconciliation loop that correlates them, and the watches and work  *)
(* queue that drive it.                                                    *)
(*                                                                         *)
(* Strings are sequences of one-character strings, so that normalisation,  *)
(* formatting and prefix tests are computed rather than assumed.           *)
(***************************************************************************)
EXTENDS Integers, Sequences, FiniteSets, TLC

VARIABLES
    jobs,        \* job id -> the persisted LighthouseJob, or NoJob
    activities,  \* activity name -> the persisted PipelineActivity, or NoActivity
    env,         \* process environment: report URL base and team
    clock,       \* the wall clock read by metav1.Now()
    calls,       \* the client / engine calls of the latest reconciliation, in order
    result,      \* how the latest reconciliation returned
    createCall,  \* the latest reconciliation's create call: parameter and returned key
    orphaned,    \* job id -> whether a create succeeded whose status write then failed
    applied,     \* job id -> whether apply has been called for the job
    pended,      \* job id -> whether the Pending status has been persisted
    workqueue,   \* the controller's work queue: queue, dirty set, processing set
    inflight,    \* job id -> the job as read by the reconciliation in flight, or NoFlight
    rv,          \* job id -> the resourceVersion of the persisted job
    event        \* the latest watch event delivered and the requests it mapped to

queueVars == <<workqueue, inflight, rv, event>>

vars == <<jobs, activities, env, clock, calls, result, createCall,
          orphaned, applied, pended, workqueue, inflight, rv, event>>

----------------------------------------------------------------------------
(* Bounds *)

\* largest value of the wall clock
MaxClock == 2
\* the highest resource version a job reaches
MaxVersion == 3

----------------------------------------------------------------------------
(* Strings *)

Empty == << >>

RECURSIVE HasPrefix(_, _)
\* strings.HasPrefix
HasPrefix(s, p) ==
    IF p = << >> THEN TRUE
    ELSE IF s = << >> THEN FALSE
    ELSE Head(s) = Head(p) /\ HasPrefix(Tail(s), Tail(p))

RECURSIVE TrimRight(_, _)
\* strings.TrimRight(s, cutset) for a one-character cutset
TrimRight(s, c) ==
    IF s = << >> THEN s
    ELSE IF s[Len(s)] = c THEN TrimRight(SubSeq(s, 1, Len(s) - 1), c)
    ELSE s

Digit(d) == <<"0", "1", "2", "3", "4", "5", "6", "7", "8", "9">>[d + 1]

RECURSIVE Digits(_)
Digits(n) == IF n < 10 THEN <<Digit(n)>> ELSE Digits(n \div 10) \o <<Digit(n % 10)>>

\* strconv.Itoa
Itoa(n) == IF n < 0 THEN <<"-">> \o Digits(0 - n) ELSE Digits(n)

LowerLetters == {"a", "b", "c", "j"}
DigitChars   == {"0", "1", "2", "3", "4", "5", "6", "7", "8", "9"}

ToLower(ch) ==
    CASE ch = "A" -> "a"
      [] ch = "B" -> "b"
      [] ch = "C" -> "c"
      [] ch = "J" -> "j"
      [] OTHER    -> ch

RECURSIVE ValidNameScan(_, _, _)
\* the character loop of ToValidName: upper case is lowered, characters
\* before the first letter are dropped, every other character that is not a
\* lower-case letter or digit becomes a dash, runs of dashes collapse
ValidNameScan(name, out, lastCharDash) ==
    IF name = << >> THEN out
    ELSE LET ch == ToLower(Head(name)) IN
         IF out = << >>
         THEN IF ch \in LowerLetters
              THEN ValidNameScan(Tail(name), <<ch>>, FALSE)
              ELSE ValidNameScan(Tail(name), out, FALSE)
         ELSE IF ch \in LowerLetters \cup DigitChars
              THEN ValidNameScan(Tail(name), Append(out, ch), FALSE)
              ELSE IF lastCharDash
                   THEN ValidNameScan(Tail(name), out, TRUE)
                   ELSE ValidNameScan(Tail(name), Append(out, "-"), TRUE)

\* util.ToValidName: the Kubernetes-safe form of a name
ToValidName(name) == TrimRight(ValidNameScan(name, << >>, FALSE), "-")

----------------------------------------------------------------------------
(* Resources *)

JobIds == {"j1"}

\* controllerName's operating namespace (LighthouseJobReconciler.namespace)
Namespace == <<"j", "x">>

\* configjob.JenkinsXAgent and configjob.LegacyDefaultAgent
JenkinsXAgent      == "jenkins-x"
\* a legacy default that is the name of the other controller's agent
LegacyAgentMistaken == "tekton-pipeline"
LegacyDefaultAgent == "tekton"
\* an agent served by another controller
OtherAgent         == "tekton-pipeline"
\* the activity reference another controller gives its jobs
OtherActivityName  == <<"a", "-", "1">>
Agents == {JenkinsXAgent, LegacyDefaultAgent, OtherAgent}

TriggeredState == "triggered"
PendingState   == "pending"
SuccessState   == "success"
States == {TriggeredState, PendingState, SuccessState}

\* util.BuildNumLabel
BuildNumLabel == "build"
\* Label maps: the set of key/value pairs, and whether the map is allocated
\* (a job read without labels carries a nil map)
NilMap == [alloc |-> FALSE, kv |-> {}]
Labels(kv) == [alloc |-> TRUE, kv |-> kv]
\* a label the job was submitted with
OtherLabel == <<"job", <<"j">>>>

NoJob      == [none |-> "job"]
NoActivity == [none |-> "activity"]
\* a nil *ActivityRecord
NoRecord   == [none |-> "record"]

\* names the engine's create may hand back in its activity key
EngineNames == { <<"A", ".", "1">>, <<"a", "-", "1">> }
FirstName == <<"A", ".", "1">>
\* names a PipelineActivity of the namespace may carry
ActNames == { <<"a", "-", "1">>, <<"a", ".", "1">> }

\* the (build, context) pairs a PipelineActivity may carry
ActivitySpecs == { [build |-> <<"1">>, context |-> Empty],
                   [build |-> <<"2">>, context |-> <<"c">>] }

GitOwner  == <<"a", "c", "m", "e">>
GitRepo   == <<"w">>
GitBranch == <<"m">>
SourceURL == <<"u">>
BaseRef   == <<"m">>
BaseSHA   == <<"s", "0">>

\* the pull-request lists a job may be submitted with
PullLists ==
    { << >>,
      << [Number |-> 5, SHA |-> <<"x">>] >>,
      << [Number |-> 12, SHA |-> <<"y">>], [Number |-> 5, SHA |-> <<"x">>] >> }

\* LighthouseJobStatus
Status(state, activityName, startTime, reportURL, activity) ==
    [state |-> state, activityName |-> activityName, startTime |-> startTime,
     reportURL |-> reportURL, activity |-> activity]

\* a job as submitted: no activity reference, no start time, no report
NewJob(agent, pulls, labels, state) ==
    [agent |-> agent, pulls |-> pulls, labels |-> labels,
     status |-> Status(state, Empty, 0, Empty, NoRecord)]

\* process environments: LIGHTHOUSE_REPORT_URL_BASE and LIGHTHOUSE_REPORT_URL_TEAM
Envs ==
    { [base |-> Empty, team |-> Empty],
      [base |-> <<"h", "t", "t", "p", "s", ":", "/", "/", "e", "/">>, team |-> <<"t">>],
      [base |-> <<"h", "t", "t", "p", ":", "/", "/", "e">>, team |-> Empty],
      [base |-> <<"f", "t", "p", ":", "/", "/", "e">>, team |-> Empty] }

\* the job most submissions look like
PlainJob == [agent |-> JenkinsXAgent, pulls |-> << >>, labels |-> Labels({OtherLabel})]

\* the jobs submitted: the plain job in every state, and the plain job
\* Triggered with another agent, with pull requests, or without labels
Submitted ==
    { NewJob(PlainJob.agent, PlainJob.pulls, PlainJob.labels, s) : s \in States }
    \cup { NewJob(a, PlainJob.pulls, PlainJob.labels, TriggeredState) : a \in Agents }
    \cup { NewJob(PlainJob.agent, p, PlainJob.labels, TriggeredState) : p \in PullLists }
    \cup { NewJob(PlainJob.agent, PlainJob.pulls, NilMap, TriggeredState) }

\* the jobs of another agent as its own controller leaves them: in every
\* state, and Pending with the activity reference it gave them
Foreign ==
    { NewJob(OtherAgent, PlainJob.pulls, PlainJob.labels, s) : s \in States }
    \cup { [NewJob(OtherAgent, PlainJob.pulls, PlainJob.labels, PendingState)
               EXCEPT !.status.activityName = OtherActivityName] }

\* the index function registered for PipelineActivity under pipelineActivityKey
ActivityIndex(name) == ToValidName(name)

\* a PipelineActivity as the cache holds it: its name, the spec fields the
\* reconciler reads, and the value it is indexed under
Activity(name, build, context) ==
    [name |-> name, owner |-> GitOwner, repo |-> GitRepo, branch |-> GitBranch,
     build |-> build, context |-> context, index |-> ActivityIndex(name)]

\* client.List of the namespace's activities with MatchingFields on the index
ListActivities(acts, key) ==
    { n \in DOMAIN acts : acts[n] # NoActivity /\ acts[n].index = key }

Call(op, ok) == [op |-> op, ok |-> ok]

\* no create call was made
NoCreate == [none |-> "create"]
\* no activity key: create failed
NoKey == [none |-> "key"]

----------------------------------------------------------------------------
(* The report URL *)

Lit(text) == [lit |-> text]
Key(name) == [key |-> name]

\* defaultTargetURLTemplate, as text/template parses it
defaultTargetURLTemplate ==
    << Key("BaseURL"), Lit(<<"/", "t", "e", "a", "m", "s", "/">>), Key("Team"),
       Lit(<<"/", "p", "r", "o", "j", "e", "c", "t", "s", "/">>), Key("Owner"),
       Lit(<<"/">>), Key("Repository"), Lit(<<"/">>), Key("Branch"),
       Lit(<<"/">>), Key("Build") >>

\* ReportParams
ReportParams(baseURL, owner, repository, branch, build, context, team) ==
    [BaseURL |-> baseURL, Owner |-> owner, Repository |-> repository,
     Branch |-> branch, Build |-> build, Context |-> context, Team |-> team]

\* toObjectMap: the struct's fields as a map keyed by field name
toObjectMap(object) == [k \in DOMAIN object |-> object[k]]

RECURSIVE Execute(_, _)
\* template execution with missingkey=error: the rendered text, or an error
Execute(tmpl, data) ==
    IF tmpl = << >> THEN [err |-> FALSE, text |-> Empty]
    ELSE LET seg  == Head(tmpl)
             rest == Execute(Tail(tmpl), data)
         IN  IF "key" \in DOMAIN seg /\ seg.key \notin DOMAIN data
             THEN [err |-> TRUE, text |-> Empty]
             ELSE IF rest.err THEN rest
             ELSE [err |-> FALSE,
                   text |-> (IF "key" \in DOMAIN seg THEN data[seg.key] ELSE seg.lit)
                            \o rest.text]

\* createReportTargetURL: the rendered text, or "" when rendering fails
createReportTargetURL(templateText, params) ==
    LET rendered == Execute(templateText, toObjectMap(params))
    IN  IF rendered.err THEN Empty ELSE rendered.text

HttpPrefix  == <<"h", "t", "t", "p", ":", "/", "/">>
HttpsPrefix == <<"h", "t", "t", "p", "s", ":", "/", "/">>
JenkinsX    == <<"j", "e", "n", "k", "i", "n", "s", "-", "x">>

\* ConvertPipelineActivity: the ActivityRecord of a PipelineActivity
ConvertPipelineActivity(pa) ==
    [Name |-> pa.name, Owner |-> pa.owner, Repo |-> pa.repo, Branch |-> pa.branch,
     BuildIdentifier |-> pa.build, Context |-> pa.context]

\* a report URL accepted whatever its scheme
ReportURLAnyScheme(previous, activityRecord, e) ==
    IF e.base # Empty
    THEN createReportTargetURL(defaultTargetURLTemplate,
             ReportParams(TrimRight(e.base, "/"), activityRecord.Owner,
                          activityRecord.Repo, activityRecord.Branch,
                          activityRecord.BuildIdentifier, activityRecord.Context,
                          IF e.team # Empty THEN e.team ELSE Namespace))
    ELSE previous

\* a report URL that adds the accepted URL to the value read
ReportURLAdded(previous, activityRecord, e) ==
    LET urlBase == e.base IN
    IF urlBase # Empty
    THEN LET urlTeam == e.team
             team == IF urlTeam # Empty THEN urlTeam ELSE Namespace
             pipelineContext ==
                 IF activityRecord.Context = Empty THEN JenkinsX
                 ELSE activityRecord.Context
             targetURL ==
                 createReportTargetURL(defaultTargetURLTemplate,
                     ReportParams(TrimRight(urlBase, "/"), activityRecord.Owner,
                                  activityRecord.Repo, activityRecord.Branch,
                                  activityRecord.BuildIdentifier, pipelineContext, team))
         IN  IF HasPrefix(targetURL, HttpPrefix) \/ HasPrefix(targetURL, HttpsPrefix)
             THEN previous \o targetURL
             ELSE previous
    ELSE previous

\* the report URL the one-activity branch leaves in job.Status.ReportURL
\* (previous: the value read with the job)
ReportURL(previous, activityRecord, e) ==
    LET urlBase == e.base IN
    IF urlBase # Empty
    THEN LET urlTeam == e.team
             team == IF urlTeam # Empty THEN urlTeam ELSE Namespace
             pipelineContext ==
                 IF activityRecord.Context = Empty THEN JenkinsX
                 ELSE activityRecord.Context
             targetURL ==
                 createReportTargetURL(defaultTargetURLTemplate,
                     ReportParams(TrimRight(urlBase, "/"), activityRecord.Owner,
                                  activityRecord.Repo, activityRecord.Branch,
                                  activityRecord.BuildIdentifier, pipelineContext, team))
         IN  IF HasPrefix(targetURL, HttpPrefix) \/ HasPrefix(targetURL, HttpsPrefix)
             THEN targetURL
             ELSE previous
    ELSE previous

----------------------------------------------------------------------------
(* The pipeline trigger *)

ReleasePipeline     == "release"
PullRequestPipeline == "pullrequest"

\* getPullRefs: the PullRef of the job's source reference
getPullRefs(sourceURL, job) ==
    [sourceURL |-> sourceURL, baseBranch |-> BaseRef, baseSha |-> BaseSHA,
     pullRequests |-> [i \in 1..Len(job.pulls) |->
                          [ID |-> Itoa(job.pulls[i].Number),
                           MergeSHA |-> job.pulls[i].SHA]]]

\* a run kind that takes a single pull request for a release
PipelineKindSeveral(job) ==
    IF Len(job.pulls) > 1 THEN PullRequestPipeline ELSE ReleasePipeline

\* the run kind chosen at the trigger point
PipelineKind(job) ==
    IF Len(job.pulls) > 0 THEN PullRequestPipeline ELSE ReleasePipeline

\* metapipeline.PipelineCreateParam handed to create
PipelineCreateParam(job) ==
    [PullRef |-> getPullRefs(SourceURL, job), PipelineKind |-> PipelineKind(job)]

\* the activity key of a successful create
ActivityKey(name) == [Name |-> name, Build |-> <<"1">>]

\* an apply that files the activity under the key's name as it stands
ApplyUnderKeyName(acts, activityKey) ==
    LET n == activityKey.Name IN
    IF n \notin DOMAIN acts \/ acts[n] # NoActivity THEN acts
    ELSE [acts EXCEPT ![n] = Activity(n, activityKey.Build, Empty)]

\* a successful apply: the run is materialised and its activity exists
Apply(acts, activityKey) ==
    LET n == ToValidName(activityKey.Name) IN
    IF acts[n] # NoActivity THEN acts
    ELSE [acts EXCEPT ![n] = Activity(n, activityKey.Build, Empty)]

----------------------------------------------------------------------------
(* Reconciliation *)

\* the point at which a reconciliation's client, engine or conversion call
\* fails, if any
FailPoints == {"none", "get", "list", "create", "status", "apply", "update", "convert"}

\* what one reconciliation leaves behind: the persisted job and activities,
\* the calls it made, how it returned, and its create call
Out(job, acts, cs, res, create) ==
    [job |-> job, acts |-> acts, calls |-> cs, result |-> res, create |-> create]

\* the create call: its parameter and the key handed back
Create(param, key) == [param |-> param, key |-> key]

\* job.Labels[k] = v
SetLabel(labels, k, v) ==
    [labels EXCEPT !.kv = {p \in @ : p[1] # k} \cup {<<k, v>>}]

\* a trigger point that ignores the job's state
AtTriggerPointAnyState(job) == TRUE

\* a trigger point that also takes a Pending job whose run is not there yet
AtTriggerPointUntilRun(job) == job.status.state \in {TriggeredState, PendingState}

\* a trigger point that takes every job not yet finished
AtTriggerPointUnfinished(job) == job.status.state # SuccessState

\* whether a job without activity is at the trigger point
AtTriggerPoint(job) == job.status.state = TriggeredState

\* a Pending status assigned without its start time
PendingStatusNoStart(activityKey, now) ==
    Status(PendingState, ToValidName(activityKey.Name), 0, Empty, NoRecord)

\* the status assigned once create has succeeded
PendingStatus(activityKey, now) ==
    Status(PendingState, ToValidName(activityKey.Name), now, Empty, NoRecord)

\* a trigger that still applies the run when the status write has failed,
\* and reports the failure afterwards
TriggerPastStatusError(job, acts, f, name, now) ==
    LET pipelineCreateParam == PipelineCreateParam(job)
        activityKey == ActivityKey(name)
        pending == [job EXCEPT !.status = PendingStatus(activityKey, now)]
    IN  IF f = "create"
        THEN Out(job, acts, <<Call("create", FALSE)>>, "err",
                 Create(pipelineCreateParam, NoKey))
        ELSE IF f = "status"
        THEN Out(job, Apply(acts, activityKey),
                 <<Call("create", TRUE), Call("statusUpdate", FALSE),
                   Call("apply", TRUE)>>,
                 "err", Create(pipelineCreateParam, activityKey))
        ELSE IF f = "apply"
        THEN Out(pending, acts,
                 <<Call("create", TRUE), Call("statusUpdate", TRUE),
                   Call("apply", FALSE)>>,
                 "err", Create(pipelineCreateParam, activityKey))
        ELSE Out(pending, Apply(acts, activityKey),
                 <<Call("create", TRUE), Call("statusUpdate", TRUE),
                   Call("apply", TRUE)>>,
                 "ok", Create(pipelineCreateParam, activityKey))

\* a trigger that takes the Pending status back when apply has failed
TriggerRollsBack(job, acts, f, name, now) ==
    LET pipelineCreateParam == PipelineCreateParam(job)
        activityKey == ActivityKey(name)
        pending == [job EXCEPT !.status = PendingStatus(activityKey, now)]
    IN  IF f = "create"
        THEN Out(job, acts, <<Call("create", FALSE)>>, "err",
                 Create(pipelineCreateParam, NoKey))
        ELSE IF f = "status"
        THEN Out(job, acts, <<Call("create", TRUE), Call("statusUpdate", FALSE)>>,
                 "err", Create(pipelineCreateParam, activityKey))
        ELSE IF f = "apply"
        THEN Out(job, acts,
                 <<Call("create", TRUE), Call("statusUpdate", TRUE),
                   Call("apply", FALSE), Call("statusUpdate", TRUE)>>,
                 "err", Create(pipelineCreateParam, activityKey))
        ELSE Out(pending, Apply(acts, activityKey),
                 <<Call("create", TRUE), Call("statusUpdate", TRUE),
                   Call("apply", TRUE)>>,
                 "ok", Create(pipelineCreateParam, activityKey))

\* a trigger that applies the run before it persists the status
TriggerApplyFirst(job, acts, f, name, now) ==
    LET pipelineCreateParam == PipelineCreateParam(job)
        activityKey == ActivityKey(name)
        pending == [job EXCEPT !.status = PendingStatus(activityKey, now)]
    IN  IF f = "create"
        THEN Out(job, acts, <<Call("create", FALSE)>>, "err",
                 Create(pipelineCreateParam, NoKey))
        ELSE IF f = "apply"
        THEN Out(job, acts, <<Call("create", TRUE), Call("apply", FALSE)>>,
                 "err", Create(pipelineCreateParam, activityKey))
        ELSE IF f = "status"
        THEN Out(job, Apply(acts, activityKey),
                 <<Call("create", TRUE), Call("apply", TRUE),
                   Call("statusUpdate", FALSE)>>,
                 "err", Create(pipelineCreateParam, activityKey))
        ELSE Out(pending, Apply(acts, activityKey),
                 <<Call("create", TRUE), Call("apply", TRUE),
                   Call("statusUpdate", TRUE)>>,
                 "ok", Create(pipelineCreateParam, activityKey))

\* a trigger that sets the three fields in the status as read and keeps the
\* others
TriggerKeepsStatus(job, acts, f, name, now) ==
    LET pipelineCreateParam == PipelineCreateParam(job)
        activityKey == ActivityKey(name)
        pending == [job EXCEPT !.status.state = PendingState,
                               !.status.activityName = ToValidName(activityKey.Name),
                               !.status.startTime = now]
    IN  IF f = "create"
        THEN Out(job, acts, <<Call("create", FALSE)>>, "err",
                 Create(pipelineCreateParam, NoKey))
        ELSE IF f = "status"
        THEN Out(job, acts, <<Call("create", TRUE), Call("statusUpdate", FALSE)>>,
                 "err", Create(pipelineCreateParam, activityKey))
        ELSE IF f = "apply"
        THEN Out(pending, acts,
                 <<Call("create", TRUE), Call("statusUpdate", TRUE),
                   Call("apply", FALSE)>>,
                 "err", Create(pipelineCreateParam, activityKey))
        ELSE Out(pending, Apply(acts, activityKey),
                 <<Call("create", TRUE), Call("statusUpdate", TRUE),
                   Call("apply", TRUE)>>,
                 "ok", Create(pipelineCreateParam, activityKey))

\* Reconcile, no activity found and the job Triggered: create, persist the
\* Pending status, apply
Trigger(job, acts, f, name, now) ==
    LET pipelineCreateParam == PipelineCreateParam(job)
        activityKey == ActivityKey(name)
        pending == [job EXCEPT !.status = PendingStatus(activityKey, now)]
    IN  IF f = "create"
        THEN Out(job, acts, <<Call("create", FALSE)>>, "err",
                 Create(pipelineCreateParam, NoKey))
        ELSE IF f = "status"
        THEN Out(job, acts, <<Call("create", TRUE), Call("statusUpdate", FALSE)>>,
                 "err", Create(pipelineCreateParam, activityKey))
        ELSE IF f = "apply"
        THEN Out(pending, acts,
                 <<Call("create", TRUE), Call("statusUpdate", TRUE),
                   Call("apply", FALSE)>>,
                 "err", Create(pipelineCreateParam, activityKey))
        ELSE Out(pending, Apply(acts, activityKey),
                 <<Call("create", TRUE), Call("statusUpdate", TRUE),
                   Call("apply", TRUE)>>,
                 "ok", Create(pipelineCreateParam, activityKey))

\* a mirrored status built afresh, as the trigger builds its own, instead of
\* from the status read
MirroredStatusFresh(status, activityRecord, e) ==
    Status(status.state, Empty, status.startTime,
           ReportURL(status.reportURL, activityRecord, e), activityRecord)

\* a mirrored status that leaves the activity record out
MirroredStatusNoActivity(status, activityRecord, e) ==
    [status EXCEPT !.reportURL = ReportURL(@, activityRecord, e)]

\* the status the one-activity branch writes: the status as read, with the
\* activity record and, if accepted, the report URL
MirroredStatus(status, activityRecord, e) ==
    [status EXCEPT !.reportURL = ReportURL(@, activityRecord, e),
                   !.activity = activityRecord]

\* a mirroring that holds the label back until the status is written with it
MirrorInOneWrite(job, acts, pipelineActivity, f, e) ==
    IF ~job.labels.alloc
    THEN Out(job, acts, << >>, "panic", NoCreate)
    ELSE LET labelled ==
                 [job EXCEPT !.labels = SetLabel(@, BuildNumLabel, pipelineActivity.build)]
             activityRecord == ConvertPipelineActivity(pipelineActivity)
             mirrored ==
                 [labelled EXCEPT !.status = MirroredStatus(@, activityRecord, e)]
         IN  IF f = "update"
             THEN Out(job, acts, <<Call("update", FALSE)>>, "err", NoCreate)
             ELSE IF f = "convert"
             THEN Out(job, acts, <<Call("update", TRUE), Call("convert", FALSE)>>,
                      "err", NoCreate)
             ELSE IF f = "status"
             THEN Out(job, acts,
                      <<Call("update", TRUE), Call("convert", TRUE),
                        Call("statusUpdate", FALSE)>>,
                      "err", NoCreate)
             ELSE Out(mirrored, acts,
                      <<Call("update", TRUE), Call("convert", TRUE),
                        Call("statusUpdate", TRUE)>>,
                      "ok", NoCreate)

\* Reconcile, exactly one activity found: label the job with the build,
\* then mirror the activity and the report URL into the status
Mirror(job, acts, pipelineActivity, f, e) ==
    IF ~job.labels.alloc
    THEN \* assignment to an entry in a nil map
         Out(job, acts, << >>, "panic", NoCreate)
    ELSE LET labelled ==
                 [job EXCEPT !.labels = SetLabel(@, BuildNumLabel, pipelineActivity.build)]
             activityRecord == ConvertPipelineActivity(pipelineActivity)
             mirrored ==
                 [labelled EXCEPT !.status = MirroredStatus(@, activityRecord, e)]
         IN  IF f = "update"
             THEN Out(job, acts, <<Call("update", FALSE)>>, "err", NoCreate)
             ELSE IF f = "convert"
             THEN Out(labelled, acts, <<Call("update", TRUE), Call("convert", FALSE)>>,
                      "err", NoCreate)
             ELSE IF f = "status"
             THEN Out(labelled, acts,
                      <<Call("update", TRUE), Call("convert", TRUE),
                        Call("statusUpdate", FALSE)>>,
                      "err", NoCreate)
             ELSE Out(mirrored, acts,
                      <<Call("update", TRUE), Call("convert", TRUE),
                        Call("statusUpdate", TRUE)>>,
                      "ok", NoCreate)

\* an anomaly handled by mirroring the first activity found
AnomalyMirrorFirst(job, acts, items, f, e) ==
    Mirror(job, acts, acts[CHOOSE n \in items : TRUE], f, e)

\* Reconcile, more than one activity found: logged, nothing done
Anomaly(job, acts, items, f, e) == Out(job, acts, << >>, "ok", NoCreate)

\* a Get error returned as it is, not-found included
ReturnNotFound(notFound) == "err"

\* client.IgnoreNotFound on the error of a failed Get: how Reconcile returns
IgnoreNotFound(notFound) == IF notFound THEN "ok" ELSE "err"

\* LighthouseJobReconciler.Reconcile on the persisted job (NoJob when the
\* job is gone) and the persisted activities
Reconciliation(job, acts, f, name, now, e) ==
    IF f = "get"
    THEN Out(job, acts, <<Call("get", FALSE)>>, IgnoreNotFound(FALSE), NoCreate)
    ELSE IF job = NoJob
    THEN \* not found: ignored
         Out(job, acts, <<Call("get", FALSE)>>, IgnoreNotFound(TRUE), NoCreate)
    ELSE IF job.agent # JenkinsXAgent /\ job.agent # LegacyDefaultAgent
    THEN Out(job, acts, <<Call("get", TRUE)>>, "ok", NoCreate)
    ELSE IF f = "list"
    THEN Out(job, acts, <<Call("get", TRUE), Call("list", FALSE)>>, "err", NoCreate)
    ELSE LET items == ListActivities(acts, job.status.activityName)
             branch ==
                 IF Cardinality(items) = 0
                 THEN IF AtTriggerPoint(job)
                      THEN Trigger(job, acts, f, name, now)
                      ELSE Out(job, acts, << >>, "ok", NoCreate)
                 ELSE IF Cardinality(items) = 1
                 THEN Mirror(job, acts, acts[CHOOSE n \in items : TRUE], f, e)
                 ELSE Anomaly(job, acts, items, f, e)
         IN  [branch EXCEPT !.calls = <<Call("get", TRUE), Call("list", TRUE)>> \o @]

Called(cs, op) == \E i \in 1..Len(cs) : cs[i].op = op
Made(cs, op, ok) == \E i \in 1..Len(cs) : cs[i] = Call(op, ok)
Mark(flags, j, yes) == IF yes THEN [flags EXCEPT ![j] = TRUE] ELSE flags

----------------------------------------------------------------------------
(* The watches and the work queue *)

\* the index function registered for LighthouseJob under pipelineActivityKey:
\* a job without activity reference is not indexed
JobIndex(job) ==
    IF job.status.activityName = Empty THEN {} ELSE {job.status.activityName}

\* client.List of the namespace's jobs with MatchingFields on the index
ListJobs(js, key) ==
    { j \in DOMAIN js : js[j] # NoJob /\ key \in JobIndex(js[j]) }

RECURSIVE Requests(_)
\* one reconcile request per job of a list result
Requests(items) ==
    IF items = {} THEN << >>
    ELSE LET j == CHOOSE x \in items : TRUE IN <<j>> \o Requests(items \ {j})

\* a map function that looks the jobs up under the activity's name as it
\* stands
ToRequestsByRawName(js, name) == Requests(ListJobs(js, name))

\* the map function of the PipelineActivity watch: the requests for the jobs
\* indexed under the activity's normalised name
ToRequests(js, name) == Requests(ListJobs(js, ToValidName(name)))

\* a predicate that lets every update event through
AnyResourceVersion(old, new) == TRUE

\* predicate.ResourceVersionChangedPredicate on an update event
ResourceVersionChanged(old, new) == old # new

\* the work queue: the items waiting in order, the items that need
\* processing, and the items being processed
EmptyQueue == [queue |-> << >>, dirty |-> {}, processing |-> {}]

\* an Add that takes no notice of the items being processed
AddWhileProcessing(q, item) ==
    IF item \in q.dirty THEN q
    ELSE [q EXCEPT !.dirty = @ \cup {item}, !.queue = Append(@, item)]

\* workqueue Add: an item already waiting is not added again, and an item
\* being processed is only marked to run again
Add(q, item) ==
    IF item \in q.dirty THEN q
    ELSE IF item \in q.processing THEN [q EXCEPT !.dirty = @ \cup {item}]
    ELSE [q EXCEPT !.dirty = @ \cup {item}, !.queue = Append(@, item)]

RECURSIVE AddAll(_, _)
\* every request of an event, added in order
AddAll(q, requests) ==
    IF requests = << >> THEN q
    ELSE AddAll(Add(q, Head(requests)), Tail(requests))

\* workqueue Get: the first waiting item starts being processed
Get(q) ==
    [queue |-> Tail(q.queue),
     dirty |-> q.dirty \ {Head(q.queue)},
     processing |-> q.processing \cup {Head(q.queue)}]

\* workqueue Done: processing is over, and an item marked meanwhile waits again
Done(q, item) ==
    [queue |-> IF item \in q.dirty THEN Append(q.queue, item) ELSE q.queue,
     dirty |-> q.dirty,
     processing |-> q.processing \ {item}]

\* controller.Options.MaxConcurrentReconciles, left at its default
MaxConcurrentReconciles == 1

\* no reconciliation of the job is in flight
NoFlight == [none |-> "flight"]
\* no watch event has been delivered
NoEvent == [none |-> "event"]

\* a watch event: the job or the activity it is about (the other left
\* empty), the resource versions of the old and the new object, and the
\* requests the handler mapped it to
Event(job, activity, old, new, requests) ==
    [job |-> job, activity |-> activity, old |-> old, new |-> new,
     requests |-> requests]

\* a write of the job succeeded in the calls of a reconciliation
Wrote(cs) == Made(cs, "update", TRUE) \/ Made(cs, "statusUpdate", TRUE)

----------------------------------------------------------------------------
(* Specification *)

Init ==
    /\ jobs \in [JobIds -> Submitted \cup Foreign]
    /\ activities = [n \in ActNames |-> NoActivity]
    /\ env \in Envs
    /\ clock = 1
    /\ calls = << >>
    /\ result = "none"
    /\ createCall = NoCreate
    /\ orphaned = [j \in JobIds |-> FALSE]
    /\ applied = [j \in JobIds |-> FALSE]
    /\ pended = [j \in JobIds |-> FALSE]
    /\ workqueue = EmptyQueue
    /\ inflight = [j \in JobIds |-> NoFlight]
    /\ rv = [j \in JobIds |-> 1]
    /\ event = NoEvent

\* one run of Reconcile for the request naming job j; a failure point the
\* run does not reach, or a key no create hands back, is the same run as
\* without it and is not enumerated again
Reconcile(j, f, name) ==
    /\ LET out == Reconciliation(jobs[j], activities, f, name, clock, env) IN
       /\ f = "none" \/ out.result = "err"
       /\ name = FirstName \/ Made(out.calls, "create", TRUE)
    /\ LET out == Reconciliation(jobs[j], activities, f, name, clock, env) IN
       /\ jobs' = [jobs EXCEPT ![j] = out.job]
       /\ activities' = out.acts
       /\ calls' = out.calls
       /\ result' = out.result
       /\ createCall' = out.create
       /\ orphaned' = Mark(orphaned, j, Made(out.calls, "create", TRUE)
                                         /\ Made(out.calls, "statusUpdate", FALSE))
       /\ applied' = Mark(applied, j, Called(out.calls, "apply"))
       /\ pended' = Mark(pended, j, Made(out.calls, "create", TRUE)
                                     /\ Made(out.calls, "statusUpdate", TRUE))
    /\ UNCHANGED <<env, clock>>
    /\ UNCHANGED queueVars

\* a PipelineActivity is created in the namespace
ActivityAppears(n, a) ==
    /\ activities[n] = NoActivity
    /\ activities' = [activities EXCEPT ![n] = Activity(n, a.build, a.context)]
    /\ UNCHANGED <<jobs, env, clock, calls, result, createCall,
                   orphaned, applied, pended>>
    /\ UNCHANGED queueVars

\* the engine records progress on an existing PipelineActivity
ActivityChanges(n, a) ==
    /\ activities[n] # NoActivity
    /\ activities[n] # Activity(n, a.build, a.context)
    /\ activities' = [activities EXCEPT ![n] = Activity(n, a.build, a.context)]
    /\ UNCHANGED <<jobs, env, clock, calls, result, createCall,
                   orphaned, applied, pended>>
    /\ UNCHANGED queueVars

\* the job is deleted
JobDeleted(j) ==
    /\ jobs[j] # NoJob
    /\ jobs' = [jobs EXCEPT ![j] = NoJob]
    /\ UNCHANGED <<activities, env, clock, calls, result, createCall,
                   orphaned, applied, pended>>
    /\ UNCHANGED queueVars

\* time passes
Tick ==
    /\ clock < MaxClock
    /\ clock' = clock + 1
    /\ UNCHANGED <<jobs, activities, env, calls, result, createCall,
                   orphaned, applied, pended>>
    /\ UNCHANGED queueVars

\* the controller is restarted with another environment
Restart(e) ==
    /\ e # env
    /\ env' = e
    /\ UNCHANGED <<jobs, activities, clock, calls, result, createCall,
                   orphaned, applied, pended>>
    /\ UNCHANGED queueVars

Next ==
    \/ \E j \in JobIds, f \in FailPoints, name \in EngineNames : Reconcile(j, f, name)
    \/ \E n \in ActNames, a \in ActivitySpecs : ActivityAppears(n, a)
    \/ \E n \in ActNames, a \in ActivitySpecs : ActivityChanges(n, a)
    \/ \E j \in JobIds : JobDeleted(j)
    \/ Tick
    \/ \E e \in Envs : Restart(e)

Spec == Init /\ [][Next]_vars

\* the step is a reconciliation of job j
Reconciled(j) == \E f \in FailPoints, name \in EngineNames : Reconcile(j, f, name)

----------------------------------------------------------------------------
(* Specification of the controller under its watches and work queue:      *)
(* events enqueue requests, a worker takes a request and reads the job,   *)
(* and finishes the reconciliation later, other writers of the job and    *)
(* further events coming in between.                                      *)

\* the jobs of the namespace
QueueJobIds == {"j1", "j2"}
\* names the engine's create may hand back in its activity key
QueueEngineNames == { <<"A", ".", "1">>, <<"b", "-", "1">> }
\* names a PipelineActivity of the namespace may carry
QueueActNames == { <<"a", "-", "1">>, <<"b", "-", "1">> }
\* names the object of a PipelineActivity event may carry
EventActNames == { <<"a", ".", "1">>, <<"b", "-", "1">> }
\* the points at which a call of a reconciliation under the queue fails:
\* the writes of the job
QueueFailPoints == {"none", "status", "update"}
\* the resource versions of the old and the new object of an update event:
\* a resync delivers the same object twice
EventVersions == { <<1, 1>>, <<1, 2>> }
\* a label another writer puts on the job
TouchLabel == <<"x", <<"1">>>>

QueueInit ==
    /\ jobs = [j \in QueueJobIds |->
                  NewJob(PlainJob.agent, PlainJob.pulls, PlainJob.labels, TriggeredState)]
    /\ activities = [n \in QueueActNames |-> NoActivity]
    /\ env = [base |-> Empty, team |-> Empty]
    /\ clock = 1
    /\ calls = << >>
    /\ result = "none"
    /\ createCall = NoCreate
    /\ orphaned = [j \in QueueJobIds |-> FALSE]
    /\ applied = [j \in QueueJobIds |-> FALSE]
    /\ pended = [j \in QueueJobIds |-> FALSE]
    /\ workqueue = EmptyQueue
    /\ inflight = [j \in QueueJobIds |-> NoFlight]
    /\ rv = [j \in QueueJobIds |-> 1]
    /\ event = NoEvent

\* the LighthouseJob watch delivers an event on job j: its request is enqueued
JobEvent(j, old, new) ==
    /\ event' = Event(j, Empty, old, new, <<j>>)
    /\ workqueue' = Add(workqueue, j)
    /\ UNCHANGED <<jobs, activities, env, clock, calls, result, createCall,
                   orphaned, applied, pended, inflight, rv>>

\* the PipelineActivity watch delivers an update event on activity n: past
\* the predicate, the requests it maps to are enqueued
ActivityEvent(n, old, new) ==
    LET requests == IF ResourceVersionChanged(old, new)
                    THEN ToRequests(jobs, n) ELSE << >>
    IN  /\ event' = Event("", n, old, new, requests)
        /\ workqueue' = AddAll(workqueue, requests)
        /\ UNCHANGED <<jobs, activities, env, clock, calls, result, createCall,
                       orphaned, applied, pended, inflight, rv>>

\* a worker takes the first request and Reconcile reads its job
Start(j) ==
    /\ workqueue.queue # << >>
    /\ Head(workqueue.queue) = j
    /\ Cardinality(workqueue.processing) < MaxConcurrentReconciles
    /\ rv[j] < MaxVersion
    /\ workqueue' = Get(workqueue)
    /\ inflight' = [inflight EXCEPT ![j] = [job |-> jobs[j], rv |-> rv[j]]]
    /\ event' = NoEvent
    /\ UNCHANGED <<jobs, activities, env, clock, calls, result, createCall,
                   orphaned, applied, pended, rv>>

\* the job read by the reconciliation in flight is no longer the persisted one
Stale(j) == inflight[j].rv # rv[j]

\* the reconciliation in flight for job j runs to its end on the job it
\* read: a write of the job fails when the job read is stale and only then,
\* a successful write gives the job a new resource version, and a request
\* that returned an error is added again
Finish(j, f, name) ==
    /\ inflight[j] # NoFlight
    /\ LET out == Reconciliation(inflight[j].job, activities, f, name, clock, env) IN
       /\ f = "none" \/ out.result = "err"
       /\ name = FirstName \/ Made(out.calls, "create", TRUE)
       /\ f # "none" => Stale(j)
       /\ Stale(j) => ~Wrote(out.calls)
    /\ LET out == Reconciliation(inflight[j].job, activities, f, name, clock, env) IN
       /\ jobs' = IF Wrote(out.calls) THEN [jobs EXCEPT ![j] = out.job] ELSE jobs
       /\ rv' = IF Wrote(out.calls) THEN [rv EXCEPT ![j] = @ + 1] ELSE rv
       /\ activities' = out.acts
       /\ calls' = out.calls
       /\ result' = out.result
       /\ createCall' = out.create
       /\ orphaned' = Mark(orphaned, j, Made(out.calls, "create", TRUE)
                                         /\ Made(out.calls, "statusUpdate", FALSE))
       /\ applied' = Mark(applied, j, Called(out.calls, "apply"))
       /\ pended' = Mark(pended, j, Made(out.calls, "create", TRUE)
                                     /\ Made(out.calls, "statusUpdate", TRUE))
       /\ workqueue' = IF out.result = "err"
                       THEN Done(Add(workqueue, j), j)
                       ELSE Done(workqueue, j)
    /\ inflight' = [inflight EXCEPT ![j] = NoFlight]
    /\ event' = NoEvent
    /\ UNCHANGED <<env, clock>>

\* another writer updates the job
ExternalWrite(j) ==
    /\ jobs[j] # NoJob
    /\ rv[j] < MaxVersion
    /\ jobs' = [jobs EXCEPT ![j].labels.kv = @ \cup {TouchLabel}]
    /\ rv' = [rv EXCEPT ![j] = @ + 1]
    /\ event' = NoEvent
    /\ UNCHANGED <<activities, env, clock, calls, result, createCall,
                   orphaned, applied, pended, workqueue, inflight>>

QueueNext ==
    \/ \E j \in QueueJobIds, v \in EventVersions : JobEvent(j, v[1], v[2])
    \/ \E n \in EventActNames, v \in EventVersions : ActivityEvent(n, v[1], v[2])
    \/ \E j \in QueueJobIds : Start(j)
    \/ \E j \in QueueJobIds, f \in QueueFailPoints, name \in QueueEngineNames :
           Finish(j, f, name)
    \/ \E j \in QueueJobIds : ExternalWrite(j)

QueueSpec == QueueInit /\ [][QueueNext]_vars

\* the step finishes a reconciliation of job j
Finished(j) == \E f \in QueueFailPoints, name \in QueueEngineNames : Finish(j, f, name)

-----------------------------------------------------------------------------
(* Specification of the reconciler on jobs whose status is already filled *)

\* a report URL and an activity record written into a status earlier
OldReportURL == <<"h", "t", "t", "p", ":", "/", "/", "o">>
OldRecord == ConvertPipelineActivity(Activity(<<"o", "-", "1">>, <<"7">>, Empty))

\* jobs handed over in state Triggered without an activity reference, whose
\* status carries a start time, a report URL or an activity record from
\* another writer
Filled ==
    { [NewJob(PlainJob.agent, p, PlainJob.labels, TriggeredState)
          EXCEPT !.status.startTime = t,
                 !.status.reportURL = u,
                 !.status.activity = r] :
        p \in {<< >>, << [Number |-> 5, SHA |-> <<"x">>] >>},
        t \in {0, 1},
        u \in {Empty, OldReportURL},
        r \in {NoRecord, OldRecord} }
    \ { NewJob(PlainJob.agent, p, PlainJob.labels, TriggeredState) : p \in PullLists }

FilledInit ==
    /\ jobs \in [JobIds -> Filled]
    /\ activities = [n \in ActNames |-> NoActivity]
    /\ env \in Envs
    /\ clock = 1
    /\ calls = << >>
    /\ result = "none"
    /\ createCall = NoCreate
    /\ orphaned = [j \in JobIds |-> FALSE]
    /\ applied = [j \in JobIds |-> FALSE]
    /\ pended = [j \in JobIds |-> FALSE]
    /\ workqueue = EmptyQueue
    /\ inflight = [j \in JobIds |-> NoFlight]
    /\ rv = [j \in JobIds |-> 1]
    /\ event = NoEvent

FilledSpec == FilledInit /\ [][Next]_vars

----------------------------------------------------------------------------
(* Properties *)

\* create has succeeded for job j
created(j) == orphaned[j] \/ pended[j]

\* the activities correlated with job j's persisted activity reference
Correlated(j) == ListActivities(activities, jobs[j].status.activityName)

\* number of calls of an operation in a call log
Count(cs, op) == Cardinality({i \in 1..Len(cs) : cs[i].op = op})

\* the reconciliation of this step found job j Triggered with no correlated
\* activity
TriggerStep(j) ==
    /\ jobs[j] # NoJob
    /\ jobs[j].status.state = TriggeredState
    /\ Correlated(j) = {}
    /\ Made(calls', "list", TRUE)
    /\ Reconciled(j)

\* the job is persisted Pending with an activity reference
PendingWithActivity(job) ==
    /\ job # NoJob
    /\ job.status.state = PendingState
    /\ job.status.activityName # Empty

\* C1 (as claimed): a reconciliation that finds the job Triggered with no
\* correlated activity calls create exactly once, and the job is persisted
\* Pending with a non-empty ActivityName exactly when create succeeded.
C1_AsClaimed ==
    [][\A j \in JobIds :
        TriggerStep(j) =>
            /\ Count(calls', "create") = 1
            /\ PendingWithActivity(jobs'[j]) <=> Made(calls', "create", TRUE)]_vars

\* C1 (amended): a reconciliation that finds the job Triggered with no
\* correlated activity calls create exactly once, and the job is persisted
\* Pending with a non-empty ActivityName exactly when create and the status
\* write both succeeded; and no reconciliation calls create for a job whose
\* persisted ActivityName is non-empty.
C1_TriggerOnce ==
    [][\A j \in JobIds :
        /\ TriggerStep(j) =>
              /\ Count(calls', "create") = 1
              /\ PendingWithActivity(jobs'[j])
                    <=> (Made(calls', "create", TRUE) /\ Made(calls', "statusUpdate", TRUE))
        /\ (jobs[j] # NoJob /\ jobs[j].status.activityName # Empty
               /\ Called(calls', "create")) => ~Reconciled(j)]_vars

\* C1 witness: the trigger has run, and a later reconciliation of the job,
\* now carrying its ActivityName, reached its decision without calling create
C1_Witness ==
    \E j \in JobIds :
        /\ PendingWithActivity(jobs[j])
        /\ created(j)
        /\ Made(calls, "list", TRUE)
        /\ ~Called(calls, "create")

\* C2 (as claimed): once create has succeeded for a job, no reconciliation
\* of the job has create succeed again.
C2_AsClaimed ==
    [][\A j \in JobIds :
        (created(j) /\ Made(calls', "create", TRUE)) => ~Reconciled(j)]_vars

\* C2 (amended): apply is invoked at most once per job, and create never
\* succeeds again for a job whose Pending status has been persisted; create
\* succeeds again only after the status write that followed it failed.
C2_AtMostOneRun ==
    [][\A j \in JobIds :
        /\ (applied[j] /\ Called(calls', "apply")) => ~Reconciled(j)
        /\ (pended[j] /\ Made(calls', "create", TRUE)) => ~Reconciled(j)
        /\ (created(j) /\ Made(calls', "create", TRUE) /\ Reconciled(j))
              => ~applied[j] /\ jobs[j].status.state = TriggeredState]_vars

\* C2 witness: create succeeded, the status write failed, and the retry went
\* through: create succeeded again and the run was applied
C2_Witness ==
    \E j \in JobIds :
        /\ orphaned[j] /\ pended[j] /\ applied[j]
        /\ Made(calls, "apply", TRUE)

\* the job is Pending with its ActivityName assigned and no activity exists
\* for it: the state a failed apply leaves behind
Unmaterialized(j) == PendingWithActivity(jobs[j]) /\ Correlated(j) = {}

\* C3 (as claimed): in the state a failed apply leaves behind, every
\* reconciliation of the job that completes its lookup calls apply again,
\* so that the run is materialised as soon as apply stops failing.
C3_AsClaimed ==
    [][\A j \in JobIds :
        (Unmaterialized(j) /\ applied[j] /\ Made(calls', "list", TRUE) /\ Reconciled(j))
            => Called(calls', "apply")]_vars

\* position of the first call of an operation in a call log (0 when absent)
Pos(cs, op) ==
    IF Called(cs, op) THEN CHOOSE i \in 1..Len(cs) :
                               cs[i].op = op /\ \A k \in 1..(i - 1) : cs[k].op # op
    ELSE 0

\* C4: a reconciliation invokes apply only after create has succeeded and the
\* status write has persisted the job as Pending with ActivityName equal to
\* the normalised name of the activity key create handed back.
C4_ApplyAfterPersist ==
    [][\A j \in JobIds :
        (Called(calls', "apply") /\ Reconciled(j)) =>
            /\ Made(calls', "create", TRUE)
            /\ Made(calls', "statusUpdate", TRUE)
            /\ Pos(calls', "create") < Pos(calls', "statusUpdate")
            /\ Pos(calls', "statusUpdate") < Pos(calls', "apply")
            /\ Count(calls', "apply") = 1
            /\ PendingWithActivity(jobs'[j])
            /\ createCall'.key # NoKey
            /\ jobs'[j].status.activityName = ToValidName(createCall'.key.Name)
            /\ jobs'[j].status.activityName \in {<<"a", "-", "1">>}]_vars

\* C4 witness: apply was invoked (and failed) with the job already
\* persisted as Pending under its activity name
C4_Witness ==
    \E j \in JobIds :
        /\ Made(calls, "apply", FALSE)
        /\ PendingWithActivity(jobs[j])
        /\ createCall # NoCreate
        /\ createCall.key.Name = <<"A", ".", "1">>

\* C5: once a job's persisted ActivityName is non-empty, no step changes it.
C5_ActivityNameKept ==
    [][\A j \in JobIds :
        (jobs[j] # NoJob /\ jobs[j].status.activityName # Empty /\ jobs'[j] # NoJob)
            => jobs'[j].status.activityName = jobs[j].status.activityName]_vars

\* C5 witness: a job carrying its ActivityName has had its status written
\* again by a reconciliation mirroring a changed activity
C5_Witness ==
    \E j \in JobIds :
        /\ PendingWithActivity(jobs[j])
        /\ ~Called(calls, "create")
        /\ Made(calls, "statusUpdate", TRUE)
        /\ jobs[j].status.activity # NoRecord
        /\ jobs[j].status.activity.BuildIdentifier = <<"2">>

\* C6: the job's state and start time change only in the one write that
\* makes a Triggered job without ActivityName Pending, which assigns the
\* ActivityName and the current time with it; that write happens at most once
\* per job, and after it no step changes the state or the start time.
C6_PendingOnce ==
    [][\A j \in JobIds :
        (jobs[j] # NoJob /\ jobs'[j] # NoJob) =>
            /\ (jobs'[j].status.state # jobs[j].status.state
                \/ jobs'[j].status.startTime # jobs[j].status.startTime)
                  => /\ ~pended[j] /\ pended'[j]
                     /\ jobs[j].status.state = TriggeredState
                     /\ jobs[j].status.activityName = Empty
                     /\ jobs'[j].status.state = PendingState
                     /\ jobs'[j].status.activityName # Empty
                     /\ jobs'[j].status.startTime = clock
                     /\ Count(calls', "statusUpdate") = 1
            /\ (pended[j] /\ Made(calls', "create", TRUE)) => ~Reconciled(j)
            /\ pended'[j] => /\ jobs'[j].status.state = PendingState
                             /\ jobs'[j].status.startTime > 0]_vars

\* C6 witness: after the Pending write the clock moved on and a later
\* reconciliation wrote the status again, the start time staying as it was
C6_Witness ==
    \E j \in JobIds :
        /\ PendingWithActivity(jobs[j])
        /\ pended[j]
        /\ ~Called(calls, "create")
        /\ Made(calls, "statusUpdate", TRUE)
        /\ jobs[j].status.startTime = 1
        /\ clock = 2

\* the value of a label, or Empty
GetLabel(labels, k) ==
    IF \E p \in labels.kv : p[1] = k
    THEN (CHOOSE p \in labels.kv : p[1] = k)[2]
    ELSE Empty

\* the reconciliation of this step found exactly one activity correlated with
\* job j
MirrorStep(j) ==
    /\ jobs[j] # NoJob
    /\ Cardinality(Correlated(j)) = 1
    /\ Made(calls', "list", TRUE)
    /\ UNCHANGED <<activities, env, clock>>
    /\ Reconciled(j)

\* the one activity correlated with job j
TheActivity(j) == activities[CHOOSE n \in Correlated(j) : TRUE]

\* C7: after a reconciliation that found exactly one correlated activity and
\* returned without error, the job's status.activity carries the activity's
\* owner, repository, branch, build and context, and the job's build-number
\* label is the activity's build.
C7_StatusMirrored ==
    [][\A j \in JobIds :
        (result' = "ok" /\ MirrorStep(j)) =>
            /\ jobs'[j].status.activity # NoRecord
            /\ jobs'[j].status.activity.Owner = TheActivity(j).owner
            /\ jobs'[j].status.activity.Repo = TheActivity(j).repo
            /\ jobs'[j].status.activity.Branch = TheActivity(j).branch
            /\ jobs'[j].status.activity.BuildIdentifier = TheActivity(j).build
            /\ jobs'[j].status.activity.Context = TheActivity(j).context
            /\ GetLabel(jobs'[j].labels, BuildNumLabel) = TheActivity(j).build
            /\ OtherLabel \in jobs'[j].labels.kv]_vars

\* C7 witness: a job whose status and label mirror an activity at build 2
\* with a context
C7_Witness ==
    \E j \in JobIds :
        /\ result = "ok"
        /\ Made(calls, "update", TRUE)
        /\ jobs[j] # NoJob
        /\ jobs[j].status.activity # NoRecord
        /\ jobs[j].status.activity.Context = <<"c">>
        /\ GetLabel(jobs[j].labels, BuildNumLabel) = <<"2">>

\* the report URL the default template gives for job j's one activity
ExpectedURL(j) ==
    TrimRight(env.base, "/") \o <<"/", "t", "e", "a", "m", "s", "/">>
        \o (IF env.team = Empty THEN Namespace ELSE env.team)
        \o <<"/", "p", "r", "o", "j", "e", "c", "t", "s", "/">>
        \o TheActivity(j).owner \o <<"/">> \o TheActivity(j).repo \o <<"/">>
        \o TheActivity(j).branch \o <<"/">> \o TheActivity(j).build

\* the base is configured and the rendered text is an http or https URL
UrlAccepted(j) ==
    /\ env.base # Empty
    /\ \/ SubSeq(ExpectedURL(j), 1, 7) = HttpPrefix
       \/ SubSeq(ExpectedURL(j), 1, 8) = HttpsPrefix

\* C8: in a reconciliation that found exactly one correlated activity and
\* reached the report URL, the status written carries the rendered URL exactly
\* when the base is configured and the rendered text starts with http:// or
\* https://, and the previous report URL otherwise; whether the URL is
\* accepted never makes the reconciliation fail.
C8_ReportURL ==
    [][\A j \in JobIds :
        (Made(calls', "convert", TRUE) /\ MirrorStep(j)) =>
            /\ Made(calls', "statusUpdate", TRUE) =>
                  jobs'[j].status.reportURL =
                      IF UrlAccepted(j) THEN ExpectedURL(j) ELSE jobs[j].status.reportURL
            /\ Made(calls', "statusUpdate", FALSE) =>
                  jobs'[j].status.reportURL = jobs[j].status.reportURL
            /\ result' = "ok" <=> Made(calls', "statusUpdate", TRUE)]_vars

\* C8 witness: a job that had a report URL was reconciled under a base of
\* another scheme, the status was written and the report URL is still there
C8_Witness ==
    \E j \in JobIds :
        /\ result = "ok"
        /\ Made(calls, "convert", TRUE)
        /\ Made(calls, "statusUpdate", TRUE)
        /\ env.base = <<"f", "t", "p", ":", "/", "/", "e">>
        /\ jobs[j] # NoJob
        /\ jobs[j].status.reportURL # Empty

\* C9: a reconciliation that finds more than one correlated activity writes
\* nothing to the job, calls neither create nor apply, and returns success.
C9_AnomalyNoAction ==
    [][\A j \in JobIds :
        (jobs[j] # NoJob /\ Cardinality(Correlated(j)) > 1
         /\ Made(calls', "list", TRUE) /\ Reconciled(j)) =>
            /\ jobs' = jobs
            /\ activities' = activities
            /\ calls' = <<Call("get", TRUE), Call("list", TRUE)>>
            /\ createCall' = NoCreate
            /\ result' = "ok"]_vars

\* C9 witness: a job whose ActivityName two activities share has been
\* reconciled, successfully and with the lookup as its last call
C9_Witness ==
    \E j \in JobIds :
        /\ PendingWithActivity(jobs[j])
        /\ Cardinality(Correlated(j)) = 2
        /\ result = "ok"
        /\ calls = <<Call("get", TRUE), Call("list", TRUE)>>
        /\ jobs[j].status.activity # NoRecord

DigitValue(ch) == CHOOSE d \in 0..9 : Digit(d) = ch

RECURSIVE DecimalValue(_)
\* the number a string of decimal digits denotes
DecimalValue(s) ==
    IF s = << >> THEN 0
    ELSE 10 * DecimalValue(SubSeq(s, 1, Len(s) - 1)) + DigitValue(s[Len(s)])

\* C10: the parameter passed to create has the pull-request kind exactly when
\* the job has at least one pull request and the release kind exactly when it
\* has none, and its pull requests are the job's (number, revision) pairs in
\* the job's order.
C10_RunKind ==
    [][\A j \in JobIds :
        (Called(calls', "create") /\ Reconciled(j)) =>
            LET pulls == jobs[j].pulls
                param == createCall'.param
                prs   == param.PullRef.pullRequests
            IN  /\ param.PipelineKind = PullRequestPipeline <=> Len(pulls) >= 1
                /\ param.PipelineKind = ReleasePipeline <=> Len(pulls) = 0
                /\ Len(prs) = Len(pulls)
                /\ \A i \in 1..Len(pulls) :
                      /\ DecimalValue(prs[i].ID) = pulls[i].Number
                      /\ prs[i].MergeSHA = pulls[i].SHA]_vars

\* C10 witness: create was called for a job with a single pull request
C10_Witness ==
    \E j \in JobIds :
        /\ Called(calls, "create")
        /\ jobs[j] # NoJob
        /\ Len(jobs[j].pulls) = 1
        /\ createCall.param.PipelineKind = PullRequestPipeline
        /\ createCall.param.PullRef.pullRequests[1].ID = <<"5">>

\* the activities other than the one applied that the namespace already
\* held under the normalised name n
Namesakes(n) ==
    { m \in DOMAIN activities : m # n /\ activities[m] # NoActivity
                                /\ activities[m].index = n }

\* the jobs a change of activity n is mapped to, after the step
MappedTo(n) == { ToRequests(jobs', n)[i] : i \in 1..Len(ToRequests(jobs', n)) }

\* C11 (as claimed): after a trigger reconciliation in which create, the
\* status write and apply all succeed, exactly one activity is correlated
\* with the job.
C11_AsClaimed ==
    [][\A j \in JobIds :
        (Made(calls', "apply", TRUE) /\ Reconciled(j)) =>
            Cardinality(ListActivities(activities', jobs'[j].status.activityName)) = 1]_vars

\* C11 (amended): after a trigger reconciliation in which create, the status
\* write and apply all succeed, the job is Pending with a non-empty
\* ActivityName and no report URL, the ActivityName is the normalised name of
\* the activity key, the activity of that name exists, the activities
\* correlated with the job are that activity and the activities of other
\* names that were already there under the same normalised name (so exactly
\* one when there were none), and an event on any of them maps back to the
\* job.
C11_TriggerCorrelates ==
    [][\A j \in JobIds :
        (Made(calls', "apply", TRUE) /\ Reconciled(j)) =>
            LET name  == jobs'[j].status.activityName
                found == ListActivities(activities', name)
            IN  /\ PendingWithActivity(jobs'[j])
                /\ jobs'[j].status.reportURL = Empty
                /\ name = ToValidName(createCall'.key.Name)
                /\ activities'[name] # NoActivity
                /\ ToValidName(activities'[name].name) = name
                /\ found = {name} \cup Namesakes(name)
                /\ Namesakes(name) = {} => Cardinality(found) = 1
                /\ \A n \in found : j \in MappedTo(n)]_vars

\* C11 witness: the trigger went through for a job of a namespace without
\* activities, and exactly one activity is correlated with the job
C11_Witness ==
    \E j \in JobIds :
        /\ Made(calls, "apply", TRUE)
        /\ result = "ok"
        /\ PendingWithActivity(jobs[j])
        /\ jobs[j].status.startTime = clock
        /\ Cardinality(Correlated(j)) = 1
        /\ activities[<<"a", ".", "1">>] = NoActivity

\* number of times an item waits in the queue
Waiting(j) == Cardinality({i \in 1..Len(workqueue.queue) : workqueue.queue[i] = j})

\* the same, after the step
WaitingNext(j) == Cardinality({i \in 1..Len(workqueue'.queue) : workqueue'.queue[i] = j})

\* a reconciliation of job j is in flight
InFlight(j) == inflight[j] # NoFlight

\* C12: a job has a reconciliation in flight exactly while it is being
\* processed by the queue, a job being processed does not wait in the queue
\* and no job waits twice, so no second reconciliation of the job can start;
\* an event for a job in flight only marks it: the job does not enter the
\* queue and the reconciliation in flight stays as it is; and when the reconciliation
\* finishes the marked job waits exactly once, to be run again.
C12_OneInFlight ==
    [][\A j \in QueueJobIds :
        /\ InFlight(j) <=> j \in workqueue.processing
        /\ InFlight(j) => Waiting(j) = 0
        /\ Waiting(j) <= 1
        /\ Waiting(j) = 1 => j \in workqueue.dirty
        /\ Cardinality(workqueue.processing) <= MaxConcurrentReconciles
        /\ (~InFlight(j) /\ inflight'[j] # NoFlight) => Waiting(j) = 1 /\ WaitingNext(j) = 0
        /\ (InFlight(j) /\ event' # NoEvent /\ event' # event) =>
              /\ inflight' = inflight
              /\ WaitingNext(j) = 0
              /\ workqueue'.processing = workqueue.processing
              /\ (\E i \in 1..Len(event'.requests) : event'.requests[i] = j)
                    => j \in workqueue'.dirty
        /\ (InFlight(j) /\ inflight'[j] = NoFlight) =>
              /\ j \notin workqueue'.processing
              /\ WaitingNext(j) = IF j \in workqueue.dirty \/ result' = "err" THEN 1 ELSE 0]_vars

\* C12 witness: an event for a job arrived while its reconciliation was in
\* flight, and the job is marked and does not wait in the queue
C12_Witness ==
    \E j \in QueueJobIds :
        /\ InFlight(j)
        /\ event # NoEvent
        /\ event.job = j
        /\ j \in workqueue.dirty
        /\ j \in workqueue.processing
        /\ Waiting(j) = 0

\* the reconciliation finishing in this step issued a write of the job
WroteOrTried(cs) == Called(cs, "update") \/ Called(cs, "statusUpdate")

\* the persisted job has moved on from the version the reconciliation in
\* flight read
Outdated(j) == inflight[j].rv < rv[j]

\* C13: a reconciliation that writes the job from a stale read has that
\* write fail: nothing of it is persisted (the job, its version and the
\* activities stay as they were, the other writer's change included), no
\* engine apply follows, the reconciliation returns an error and the request
\* waits to be run again; and a reconciliation that starts works on the job
\* as it is persisted at that moment, the copy of the failed attempt being
\* gone.
C13_StaleWriteRetried ==
    [][\A j \in QueueJobIds :
        /\ (InFlight(j) /\ Outdated(j) /\ WroteOrTried(calls') /\ Finished(j)) =>
              /\ ~Wrote(calls')
              /\ ~Called(calls', "apply")
              /\ jobs' = jobs
              /\ rv' = rv
              /\ activities' = activities
              /\ result' = "err"
              /\ inflight'[j] = NoFlight
              /\ WaitingNext(j) = 1
        /\ (~InFlight(j) /\ inflight'[j] # NoFlight) =>
              /\ inflight'[j].job = jobs[j]
              /\ inflight'[j].rv = rv[j]]_vars

\* C13 witness: the retry of a reconciliation whose write was refused is in
\* flight, on a read that carries the other writer's label
C13_Witness ==
    \E j \in QueueJobIds :
        /\ InFlight(j)
        /\ result = "err"
        /\ Made(calls, "statusUpdate", FALSE)
        /\ ~Outdated(j)
        /\ TouchLabel \in inflight[j].job.labels.kv
        /\ jobs[j].status.state = TriggeredState
        /\ \A k \in QueueJobIds \ {j} : rv[k] = 1 /\ ~pended[k]

\* the jobs whose activity reference is the normalised name of an activity
Owners(name) ==
    { j \in QueueJobIds : /\ jobs[j] # NoJob
                          /\ jobs[j].status.activityName # Empty
                          /\ jobs[j].status.activityName = ToValidName(name) }

\* the jobs requested by the latest event
Requested == { event.requests[i] : i \in 1..Len(event.requests) }

\* C14: a change event on an activity is mapped to one request for each job
\* whose ActivityName is the activity's normalised name, and to no other
\* request; no job without ActivityName is requested by an activity event; a
\* job event is mapped to the request for that job; and every request an
\* event is mapped to is in the queue's care.
C14_EventsMapped ==
    event # NoEvent =>
        /\ event.job # "" => event.requests = <<event.job>>
        /\ (event.job = "" /\ event.old # event.new) =>
              /\ Requested = Owners(event.activity)
              /\ Len(event.requests) = Cardinality(Owners(event.activity))
        /\ event.job = "" =>
              \A j \in Requested : jobs[j].status.activityName # Empty
        /\ \A j \in Requested : j \in workqueue.dirty

\* C14 witness: a change of the activity named a.1 was mapped to both jobs,
\* whose ActivityName is a-1
C14_Witness ==
    /\ event # NoEvent
    /\ event.activity = <<"a", ".", "1">>
    /\ Len(event.requests) = 2
    /\ \A j \in QueueJobIds : jobs[j].status.activityName = <<"a", "-", "1">>

\* C15 (as claimed): an event whose old and new object have the same
\* resource version is mapped to no request, whichever watch delivers it.
C15_AsClaimed ==
    (event # NoEvent /\ event.old = event.new) => event.requests = << >>

\* C15 (amended): an activity event whose old and new object have the same
\* resource version is mapped to no request and leaves the queue as it is; a
\* job event is mapped to the job's request whatever the versions.
C15_UnchangedDropped ==
    [][(event' # NoEvent /\ event' # event /\ event'.old = event'.new) =>
          IF event'.job = ""
          THEN event'.requests = << >> /\ workqueue' = workqueue
          ELSE /\ event'.requests = <<event'.job>>
               /\ event'.job \in workqueue'.dirty]_vars

\* C15 witness: an activity event without change of version was dropped
\* although a job is correlated with the activity and nothing is queued
C15_Witness ==
    /\ event # NoEvent
    /\ event.activity = <<"b", "-", "1">>
    /\ event.old = event.new
    /\ Owners(event.activity) # {}
    /\ event.requests = << >>
    /\ workqueue = EmptyQueue

\* C16: a reconciliation that finds no correlated activity for a job whose
\* state is not Triggered calls neither create nor apply, writes nothing to
\* the job or the activities, and returns success.
C16_PastTriggerNoOp ==
    [][\A j \in JobIds :
        (jobs[j] # NoJob /\ jobs[j].status.state # TriggeredState
         /\ Correlated(j) = {} /\ Made(calls', "list", TRUE) /\ Reconciled(j)) =>
            /\ calls' = <<Call("get", TRUE), Call("list", TRUE)>>
            /\ createCall' = NoCreate
            /\ jobs' = jobs
            /\ activities' = activities
            /\ result' = "ok"]_vars

\* C16 witness: a job submitted as finished, with no activity to its name,
\* has been reconciled
C16_Witness ==
    \E j \in JobIds :
        /\ jobs[j] # NoJob
        /\ jobs[j].agent = JenkinsXAgent
        /\ jobs[j].status.state = SuccessState
        /\ Correlated(j) = {}
        /\ calls = <<Call("get", TRUE), Call("list", TRUE)>>
        /\ result = "ok"

\* C17: when create fails the reconciliation returns an error without a
\* status write or an apply, and the job stays persisted as it was,
\* Triggered with an empty ActivityName; when apply fails the reconciliation
\* returns an error and the job stays persisted Pending, with the
\* ActivityName and start time the status write gave it.
C17_EngineFailure ==
    [][\A j \in JobIds :
        /\ (Made(calls', "create", FALSE) /\ Reconciled(j)) =>
              /\ result' = "err"
              /\ ~Called(calls', "statusUpdate")
              /\ ~Called(calls', "apply")
              /\ createCall'.key = NoKey
              /\ jobs' = jobs
              /\ activities' = activities
              /\ jobs[j].status.state = TriggeredState
              /\ jobs[j].status.activityName = Empty
        /\ (Made(calls', "apply", FALSE) /\ Reconciled(j)) =>
              /\ result' = "err"
              /\ Count(calls', "statusUpdate") = 1
              /\ activities' = activities
              /\ PendingWithActivity(jobs'[j])
              /\ jobs'[j].status.activityName = ToValidName(createCall'.key.Name)
              /\ jobs'[j].status.startTime = clock]_vars

\* C17 witness: create has failed for a job, which is still Triggered and
\* without ActivityName
C17_Witness ==
    \E j \in JobIds :
        /\ Made(calls, "create", FALSE)
        /\ result = "err"
        /\ createCall # NoCreate
        /\ createCall.key = NoKey
        /\ jobs[j] # NoJob
        /\ jobs[j].status.state = TriggeredState
        /\ jobs[j].status.activityName = Empty
        /\ Len(jobs[j].pulls) = 2

\* C18: a reconciliation for a job that is gone makes the one call that
\* finds it gone, no engine call and no write; and when that call reports
\* the job as not found the reconciliation returns success.
C18_GoneDropped ==
    [][\A j \in JobIds :
        /\ (jobs[j] = NoJob /\ Reconciled(j)) =>
              /\ calls' = <<Call("get", FALSE)>>
              /\ createCall' = NoCreate
              /\ jobs' = jobs
              /\ activities' = activities
        /\ (jobs[j] = NoJob /\ Reconcile(j, "none", FirstName)) => result' = "ok"]_vars

\* C18 witness: a job that had been triggered was deleted, and the request
\* for it was dropped
C18_Witness ==
    \E j \in JobIds :
        /\ jobs[j] = NoJob
        /\ pended[j]
        /\ calls = <<Call("get", FALSE)>>
        /\ result = "ok"

\* C19: a reconciliation of a job of an agent this controller does not serve
\* stops after reading the job: no lookup of activities, no engine call, no
\* write, and success returned, whatever the job's state and whatever
\* activities exist.
C19_OtherAgentIgnored ==
    [][\A j \in JobIds :
        (jobs[j] # NoJob /\ jobs[j].agent \notin {"jenkins-x", "tekton"}
         /\ Reconcile(j, "none", FirstName)) =>
            /\ calls' = <<Call("get", TRUE)>>
            /\ createCall' = NoCreate
            /\ jobs' = jobs
            /\ activities' = activities
            /\ result' = "ok"]_vars

\* C19 witness: a job of another agent, Pending under an activity reference
\* that two activities of the namespace share, has been reconciled
C19_Witness ==
    \E j \in JobIds :
        /\ jobs[j] # NoJob
        /\ jobs[j].agent = OtherAgent
        /\ jobs[j].status.state = PendingState
        /\ Cardinality(Correlated(j)) = 2
        /\ calls = <<Call("get", TRUE)>>
        /\ result = "ok"

\* C20 (as claimed): a reconciliation in which no call fails, of a job that
\* carries no label map and has exactly one correlated activity, returns
\* success with the build-number label added and the activity mirrored into
\* the status.
C20_AsClaimed ==
    [][\A j \in JobIds :
        (jobs[j] # NoJob /\ ~jobs[j].labels.alloc /\ Cardinality(Correlated(j)) = 1
         /\ Reconcile(j, "none", FirstName)) =>
            /\ result' = "ok"
            /\ GetLabel(jobs'[j].labels, BuildNumLabel) = TheActivity(j).build
            /\ jobs'[j].status.activity # NoRecord]_vars

\* the step is a reconciliation of job j that found exactly one correlated
\* activity and went on to the label write
MirrorAttempt(j) ==
    /\ jobs[j] # NoJob
    /\ Cardinality(Correlated(j)) = 1
    /\ Called(calls', "update") \/ Called(calls', "convert")
                                \/ Called(calls', "statusUpdate")
    /\ UNCHANGED <<activities, env, clock>>
    /\ \E f \in {"none", "update", "convert", "status"} : Reconcile(j, f, FirstName)

\* C21: in a reconciliation that found exactly one correlated activity, the
\* label write comes before the conversion and the status write; when the
\* label write went through and the conversion or the status write failed,
\* the reconciliation returns an error, the job carries the activity's build
\* as its build-number label, and its status is the one it had; when the
\* label write itself failed nothing has changed.
C21_LabelThenStatus ==
    [][\A j \in JobIds :
        MirrorAttempt(j) =>
            /\ (Called(calls', "convert") \/ Called(calls', "statusUpdate")) =>
                  /\ Made(calls', "update", TRUE)
                  /\ Pos(calls', "update") < Pos(calls', "convert")
            /\ Called(calls', "statusUpdate") =>
                  Pos(calls', "convert") < Pos(calls', "statusUpdate")
            /\ (Made(calls', "update", TRUE)
                /\ (Made(calls', "convert", FALSE) \/ Made(calls', "statusUpdate", FALSE))) =>
                  /\ result' = "err"
                  /\ GetLabel(jobs'[j].labels, BuildNumLabel) = TheActivity(j).build
                  /\ jobs'[j].status = jobs[j].status
                  /\ ~(Made(calls', "convert", FALSE) /\ Called(calls', "statusUpdate"))
            /\ Made(calls', "update", FALSE) =>
                  /\ result' = "err"
                  /\ jobs' = jobs
                  /\ Len(calls') = 3]_vars

\* C21 witness: the status write failed after the label write: the job is
\* labelled with build 2 while its status still shows the activity at build 1
C21_Witness ==
    \E j \in JobIds :
        /\ result = "err"
        /\ Made(calls, "update", TRUE)
        /\ Made(calls, "statusUpdate", FALSE)
        /\ jobs[j] # NoJob
        /\ GetLabel(jobs[j].labels, BuildNumLabel) = <<"2">>
        /\ jobs[j].status.activity # NoRecord
        /\ jobs[j].status.activity.BuildIdentifier = <<"1">>

\* C22: a trigger step that persisted its status leaves the job with a status
\* holding state Pending, the valid-name form of the key create handed back
\* as ActivityName and the time of the step as start time, and nothing else:
\* the report URL is empty and the activity record is nil whatever the
\* Triggered job carried there before; agent, pull requests and labels are
\* as they were.
C22_StatusReplaced ==
    [][\A j \in JobIds :
        (TriggerStep(j) /\ Made(calls', "create", TRUE)
                        /\ Made(calls', "statusUpdate", TRUE)) =>
            /\ jobs'[j].status.state = PendingState
            /\ jobs'[j].status.activityName = ToValidName(createCall'.key.Name)
            /\ jobs'[j].status.startTime = clock
            /\ jobs'[j].status.reportURL = Empty
            /\ jobs'[j].status.activity = NoRecord
            /\ DOMAIN jobs'[j].status
                  = {"state", "activityName", "startTime", "reportURL", "activity"}
            /\ jobs'[j].agent = jobs[j].agent
            /\ jobs'[j].pulls = jobs[j].pulls
            /\ jobs'[j].labels = jobs[j].labels]_vars

\* C22 witness: a job handed over with a filled status has been triggered,
\* the run is applied, and the stored status is Pending with the reference
\* and the start time only
C22_Witness ==
    \E j \in JobIds :
        /\ pended[j]
        /\ result = "ok"
        /\ Made(calls, "apply", TRUE)
        /\ jobs[j] # NoJob
        /\ jobs[j].status
              = Status(PendingState, ToValidName(createCall.key.Name), clock,
                       Empty, NoRecord)

\* C23: after a reconciliation that mirrored the single correlated activity
\* into job j, one more reconciliation of j against the same activities and
\* the same environment, at any later time, succeeds, makes the same three
\* writes, and leaves the job's labels and status, and the activities, as
\* the first left them.
C23_MirrorIdempotent ==
    [][\A j \in JobIds :
        (result' = "ok" /\ Made(calls', "statusUpdate", TRUE) /\ MirrorStep(j)) =>
            \A now \in clock'..MaxClock :
                LET again == Reconciliation(jobs'[j], activities', "none", FirstName,
                                            now, env')
                IN  again = [again EXCEPT !.result = "ok",
                                          !.calls = calls',
                                          !.job.labels = jobs'[j].labels,
                                          !.job.status = jobs'[j].status,
                                          !.acts = activities']]_vars

\* C23 witness: a job mirrored from its single activity with an accepted
\* report URL, for which a further reconciliation mirrors again and yields
\* the job as it is
C23_Witness ==
    \E j \in JobIds :
        /\ result = "ok"
        /\ Made(calls, "update", TRUE)
        /\ Made(calls, "statusUpdate", TRUE)
        /\ jobs[j] # NoJob
        /\ Cardinality(Correlated(j)) = 1
        /\ jobs[j].status.activity = ConvertPipelineActivity(TheActivity(j))
        /\ GetLabel(jobs[j].labels, BuildNumLabel) = TheActivity(j).build
        /\ HasPrefix(jobs[j].status.reportURL, HttpsPrefix)
        /\ LET again == Reconciliation(jobs[j], activities, "none", FirstName, clock, env)
           IN  /\ Made(again.calls, "statusUpdate", TRUE)
               /\ again.job = jobs[j]

====
